---- MODULE Spec2Model ----
(***************************************************************************)
(* A model of dynatrace-backup-auto.py: one top-level invocation of        *)
(* main() after another, over a file system and a wall clock that persist  *)
(* between invocations.  Strings are sequences of one-character strings.   *)
(***************************************************************************)
EXTENDS Integers, Sequences, FiniteSets, TLC

VARIABLES
    environ,        \* os.environ: variable name -> value, or None when unset
    envFile,        \* the file .env of the working directory
    configFile,     \* the file dynatrace.config of the working directory
    hasRequests,    \* HAS_REQUESTS: whether `import requests` succeeded
    monaco,         \* the file at monaco_path: "absent", "partial" or "complete"
    backups,        \* ../backups: directory name (timestamp) -> its content
    now,            \* the wall clock, in ticks
    run,            \* the number of the current invocation of main()
    pc,             \* where the current invocation is
    base_url,       \* self.base_url
    token,          \* self.token
    masked_token,   \* what validate_environment printed for the token
    netlog,         \* the network requests attempted by this invocation, in order
    probe,          \* the outcome and the return value of test_connectivity
    child,          \* what the backup child process did in this invocation
    backup_path,    \* the value run_backup returned
    summary,        \* what _analyze_backup printed
    envYaml,        \* monaco-config/environments.yaml
    installed,      \* whether the package requests is installed on disk
    remote,         \* the paths the tool writes when it downloads the cluster's configuration
    dryrun,         \* the markers the tool's dry-run against the cluster can print
    ended,          \* the statement that ended the invocation
    exitStatus,     \* the exit status of the invocation
    spawned,        \* the tool processes this invocation started: argv and environment
    activities,     \* what runs now: the main thread, and the child it waits for
    output_log,     \* result.stdout: what run_backup holds of the child's output
    interrupted,    \* whether a KeyboardInterrupt was delivered to this invocation
    stages,         \* the stages this invocation has run, in order, each with its result
    cwd             \* the working directory of the invocations: the names from the root

vars == << environ, envFile, configFile, hasRequests, monaco, backups, now, run,
           pc, base_url, token, masked_token, netlog, probe, child,
           backup_path, summary, envYaml, installed, remote, dryrun, ended,
           exitStatus, spawned, activities, output_log, interrupted, stages,
           cwd >>

(***************************************************************************)
(* Bounds of the model.                                                    *)
(***************************************************************************)
MaxLines == 2       \* lines of a .env file
MaxMarkers == 2     \* marker substrings present in the probe's output
MaxFiles == 2       \* paths the child process leaves in the output directory
MaxRuns == 2        \* invocations of main()
MaxElapsed == 1     \* ticks that pass between two readings of the clock
TicksPerSecond == 2 \* resolution of the clock
Slack == 2          \* by how much the token lengths miss the mask lengths
MaxOutput == 2      \* lines the backup's child process prints

(***************************************************************************)
(* Program constants.                                                      *)
(***************************************************************************)
MaskLen == 10       \* token[:10] and token[-10:]

(***************************************************************************)
(* Strings.                                                                *)
(***************************************************************************)
None == << "None" >>            \* Python's None: no character is "None"
Empty == << >>
Truthy(v) == v # None /\ v # Empty

Min(a, b) == IF a < b THEN a ELSE b
Max(a, b) == IF a > b THEN a ELSE b

\* s[:n]
Prefix(s, n) == SubSeq(s, 1, Min(n, Len(s)))
\* s[-n:]
Suffix(s, n) == SubSeq(s, Max(1, Len(s) - n + 1), Len(s))

\* t in s
Contains(s, t) ==
    \E i \in 0..(Len(s) - Len(t)) : SubSeq(s, i + 1, i + Len(t)) = t

RECURSIVE LStrip(_, _)
LStrip(s, cs) ==
    IF s # << >> /\ Head(s) \in cs THEN LStrip(Tail(s), cs) ELSE s

RECURSIVE RStrip(_, _)
RStrip(s, cs) ==
    IF s # << >> /\ s[Len(s)] \in cs
    THEN RStrip(SubSeq(s, 1, Len(s) - 1), cs)
    ELSE s

\* str.strip(cs)
Strip(s, cs) == RStrip(LStrip(s, cs), cs)

Whitespace == { " ", "\n", "\t" }
Quotes == { "\"", "'" }

(***************************************************************************)
(* The values the environment of an invocation is drawn from.              *)
(***************************************************************************)
Alphabet == << "a", "b", "c", "d", "e", "f", "g" >>
Tok(n, off) == [ i \in 1..n |-> Alphabet[((i + off) % Len(Alphabet)) + 1] ]

TokPrimary == Tok(2 * MaskLen + Slack, 0)   \* longer than prefix plus suffix
TokAlias == Tok(2 * MaskLen - Slack, 1)     \* longer than the prefix, shorter than both
TokEnvFile == Tok(MaskLen - Slack, 2)       \* shorter than the prefix
TokConfig == Tok(MaskLen, 3)                \* as long as the prefix

UrlEnv == << "h", ":", "e" >>
UrlFile == << "h", ":", "f" >>

EnvNames == { "DT_CLUSTER_URL", "DT_API_TOKEN", "DYNATRACE_API_TOKEN" }

Environs ==
    { [ n \in EnvNames |->
          CASE n = "DT_CLUSTER_URL" -> u
            [] n = "DT_API_TOKEN" -> p
            [] OTHER -> q ] :
      u \in { None, Empty, UrlEnv },
      p \in { None, Empty, TokPrimary }, q \in { None, TokAlias } }

\* A line KEY=raw of .env; raw is the text after the first "=".
Line(k, raw) == [ key |-> k, raw |-> raw ]

EnvLines ==
    { Line("DT_API_TOKEN", << " ", "\"" >> \o TokEnvFile \o << "\"", "\n" >>),
      Line("DYNATRACE_API_TOKEN", << "\n" >>),
      Line("DT_CLUSTER_URL", UrlFile \o << "\n" >>) }

SeqsUpTo(S, n) == UNION { [ 1..k -> S ] : k \in 0..n }

\* A .env file: absent, or some of the lines above, each at most once, in any
\* order.
EnvFiles ==
    { [ exists |-> FALSE, lines |-> << >> ] } \cup
    { [ exists |-> TRUE, lines |-> ls ] :
        ls \in { l \in SeqsUpTo(EnvLines, MaxLines) :
                    \A i, j \in 1..Len(l) : i # j => l[i] # l[j] } }

ConfigFiles ==
    { [ kind |-> "absent", token |-> None ],
      [ kind |-> "invalid", token |-> None ],       \* not JSON, or not an object
      [ kind |-> "json", token |-> None ],          \* an object without "token"
      [ kind |-> "json", token |-> TokConfig ] }

(***************************************************************************)
(* _get_token                                                              *)
(***************************************************************************)
TokenKeys == { "DT_API_TOKEN", "DYNATRACE_API_TOKEN" }

\* The index of the first line of .env that starts with a token key, or 0.
FirstTokenLine(lines) ==
    IF \E i \in 1..Len(lines) : lines[i].key \in TokenKeys
    THEN CHOOSE i \in 1..Len(lines) :
            /\ lines[i].key \in TokenKeys
            /\ \A j \in 1..(i - 1) : lines[j].key \notin TokenKeys
    ELSE 0

\* line.split("=", 1)[1].strip().strip('"\'')
ParseValue(raw) == Strip(Strip(raw, Whitespace), Quotes)

\* config.get("token"), None when the file is no JSON object
ConfigToken(cfg) == IF cfg.kind = "json" THEN cfg.token ELSE None

\* _get_token reading .env before the environment variables.
get_token_FileFirst(env, ef, cfg) ==
    IF ef.exists /\ FirstTokenLine(ef.lines) # 0
    THEN ParseValue(ef.lines[FirstTokenLine(ef.lines)].raw)
    ELSE IF Truthy(env["DT_API_TOKEN"]) THEN env["DT_API_TOKEN"]
    ELSE IF Truthy(env["DYNATRACE_API_TOKEN"]) THEN env["DYNATRACE_API_TOKEN"]
    ELSE ConfigToken(cfg)

get_token(env, ef, cfg) ==
    IF Truthy(env["DT_API_TOKEN"]) THEN env["DT_API_TOKEN"]
    ELSE IF Truthy(env["DYNATRACE_API_TOKEN"]) THEN env["DYNATRACE_API_TOKEN"]
    ELSE IF ef.exists /\ FirstTokenLine(ef.lines) # 0
         THEN ParseValue(ef.lines[FirstTokenLine(ef.lines)].raw)
    ELSE IF cfg.kind # "absent" THEN ConfigToken(cfg)
    ELSE None

\* os.getenv('DT_CLUSTER_URL')
get_base_url(env) == env["DT_CLUSTER_URL"]

(***************************************************************************)
(* validate_environment: the masked form of the token                      *)
(***************************************************************************)
Dots == << ".", ".", "." >>

\* f"{self.token[:10]}...{self.token[-10:]}"
Mask(t) == Prefix(t, MaskLen) \o Dots \o Suffix(t, MaskLen)

(***************************************************************************)
(* download_monaco: the fallback chain                                     *)
(***************************************************************************)
\* The existence test with the file's completeness tested as well.
MonacoExists_CompleteOnly(m) == m = "complete"

\* self.monaco_path.exists()
MonacoExists(m) == m # "absent"

\* How one download method ends: "ok"; "error", before it opened the target
\* file; "broken", after it opened the target file, which it leaves incomplete.
MethodOutcomes == { "ok", "error", "broken" }

\* The methods tried, in order, when the binary is absent: r1 is how requests
\* ends, r2 how urllib ends, r3 how curl ends.
MethodsTried(hasReq, r1, r2, r3) ==
    IF hasReq THEN << "requests" >>
    ELSE IF r2 = "ok" THEN << "urllib" >>
    ELSE << "urllib", "curl" >>

\* The local variable success at line 373.
DownloadSuccess(hasReq, r1, r2, r3) ==
    IF hasReq THEN r1 = "ok" ELSE (r2 = "ok" \/ r3 = "ok")

\* The file the chain leaves at the target path, which was absent before.
FileAfter(r, before) ==
    CASE r = "ok" -> "complete"
      [] r = "broken" -> "partial"
      [] OTHER -> before

DownloadedFile(hasReq, r1, r2, r3) ==
    IF hasReq THEN FileAfter(r1, "absent")
    ELSE IF r2 = "ok" THEN "complete"
    ELSE FileAfter(r3, FileAfter(r2, "absent"))

(***************************************************************************)
(* test_connectivity: the classification of the dry-run                    *)
(***************************************************************************)
SuccessMarkers == { "validation successful", "would deploy" }
AuthMarkers == { "401", "unauthorized" }
PermissionMarkers == { "403", "forbidden" }
NetworkMarkers == { "connection", "network", "timeout" }
Markers == SuccessMarkers \cup AuthMarkers \cup PermissionMarkers \cup NetworkMarkers

\* How shutil.rmtree(temp_dir) in the finally block ends.
RmtreeOutcomes == { "ok", "error" }

\* The markers of the sample cluster's dry-run.
SampleMarkers == { "401", "validation successful" }

\* What can happen to one call when the dry-run can print the markers ms.  out
\* is the set of markers that occur in (stdout + stderr).lower(); rmtree is how
\* the removal of the temporary directory ends, which is not reached when
\* mkdtemp raised.
ProbeOutcomes(ms) ==
    { [ kind |-> "mkdtemp_error", rc |-> 0, out |-> {}, rmtree |-> "ok" ] } \cup
    { [ kind |-> k, rc |-> 0, out |-> {}, rmtree |-> r ] :
        k \in { "setup_error", "spawn_error", "timeout" }, r \in RmtreeOutcomes } \cup
    { [ kind |-> "completed", rc |-> rc, out |-> out, rmtree |-> r ] :
        rc \in { 0, 1 },
        out \in { m \in SUBSET ms : Cardinality(m) <= MaxMarkers },
        r \in RmtreeOutcomes }

\* The verdict with the failure markers looked for before the exit code.
Verdict_MarkersFirst(rc, out) ==
    IF out \cap AuthMarkers # {} THEN "invalid_token"
    ELSE IF out \cap PermissionMarkers # {} THEN "no_permission"
    ELSE IF out \cap NetworkMarkers # {} THEN "network"
    ELSE IF rc = 0 \/ out \cap SuccessMarkers # {} THEN "ok"
    ELSE "inconclusive"

\* The verdict printed for a dry-run that ran to its end (lines 441-456).
Verdict(rc, out) ==
    IF rc = 0 \/ out \cap SuccessMarkers # {} THEN "ok"
    ELSE IF out \cap AuthMarkers # {} THEN "invalid_token"
    ELSE IF out \cap PermissionMarkers # {} THEN "no_permission"
    ELSE IF out \cap NetworkMarkers # {} THEN "network"
    ELSE "inconclusive"

\* The value test_connectivity returns; "raised" when it returns nothing
\* because tempfile.mkdtemp(), outside the try, raised.
ProbeReturn(o) ==
    CASE o.kind = "mkdtemp_error" -> "raised"
      [] o.kind = "timeout" -> "False"
      [] o.kind \in { "setup_error", "spawn_error" } -> "True"
      [] OTHER -> IF Verdict(o.rc, o.out) \in { "ok", "inconclusive" }
                  THEN "True" ELSE "False"

\* The temporary directory removed after a dry-run that ran to its end only.
TempAfter_NoFinally(o) ==
    IF o.kind = "mkdtemp_error" THEN "none"
    ELSE IF o.kind = "completed" /\ o.rmtree = "ok" THEN "removed"
    ELSE "left"

\* The temporary directory when the call is over: "none" when mkdtemp made
\* none, "removed" when rmtree removed it, "left" when rmtree failed and the
\* bare except at line 470 swallowed the failure.
TempAfter(o) ==
    IF o.kind = "mkdtemp_error" THEN "none"
    ELSE IF o.rmtree = "ok" THEN "removed"
    ELSE "left"

\* The value manifest.yaml was written with (the url: line), None when the
\* call did not get to write it.
ManifestUrl(o, url) ==
    IF o.kind \in { "mkdtemp_error", "setup_error" } THEN None ELSE url

NoProbe ==
    [ outcome |-> [ kind |-> "none", rc |-> 0, out |-> {}, rmtree |-> "ok" ],
      result |-> "none", temp |-> "none", manifest |-> None ]

(***************************************************************************)
(* The tool's processes: argument vectors and environments                 *)
(***************************************************************************)
\* An argument is a literal of the source, a value of the run, or the path of
\* an output directory.
Lit(s) == [ lit |-> s ]
Val(v) == [ val |-> v ]
Dir(ts) == [ dir |-> ts ]

\* cmd at line 424
probe_cmd ==
    << Lit("monaco"), Lit("deploy"), Lit("manifest.yaml"), Lit("--dry-run"),
       Lit("--environment"), Lit("test-env") >>

\* The download command with the token itself after --token.
backup_cmd_TokenValue(url, ts) ==
    << Lit("monaco"), Lit("download"), Lit("--url"), Val(url),
       Lit("--token"), Val(token), Lit("--output-folder"), Dir(ts) >>

\* cmd at lines 512-518
backup_cmd(url, ts) ==
    << Lit("monaco"), Lit("download"), Lit("--url"), Val(url),
       Lit("--token"), Lit("DYNATRACE_API_TOKEN"), Lit("--output-folder"), Dir(ts) >>

\* env = os.environ.copy(); env[name] = self.token
child_env(env, name, tok) ==
    [ n \in DOMAIN env \cup { name } |-> IF n = name THEN tok ELSE env[n] ]

Process(argv, env) == [ argv |-> argv, env |-> env ]

(***************************************************************************)
(* _analyze_backup                                                         *)
(***************************************************************************)
\* A path under the output directory: its parent directory's name, its
\* extension, its size, whether it is a regular file or a directory, and
\* whether stat() of it succeeds.
Path(n, par, ext, size, kind, ok) ==
    [ name |-> n, parent |-> par, ext |-> ext, size |-> size, kind |-> kind, statOk |-> ok ]

PathUniverse ==
    { Path("d1", "dashboard", ".json", 1048576, "file", TRUE),
      Path("d2", "dashboard", ".json", 524288, "file", TRUE),
      Path("a1", "alerting", ".json", 2097152, "file", FALSE),
      Path("y1", "dashboard", ".yaml", 3145728, "file", TRUE),
      Path("p1", "project", ".json", 4096, "dir", TRUE) }

Trees == { t \in SUBSET PathUniverse : Cardinality(t) <= MaxFiles }

SampleTree == { p \in PathUniverse : p.name \in { "d1", "y1" } }

RECURSIVE SumSizes(_)
SumSizes(ps) ==
    IF ps = {} THEN 0
    ELSE LET p == CHOOSE q \in ps : TRUE IN p.size + SumSizes(ps \ { p })

\* backup_path.rglob("*.json"): every path whose name ends in .json
json_files(paths) == { p \in paths : p.ext = ".json" }

\* config_types: parent directory name -> number of paths
config_types(js) ==
    [ par \in { p.parent : p \in js } |-> Cardinality({ p \in js : p.parent = par }) ]

\* The sum given up at the first path whose stat() fails.
total_size_AbortOnError(js) ==
    IF \E p \in js : ~p.statOk THEN 0 ELSE SumSizes(js)

\* total_size: the sizes of the paths whose stat() succeeds
total_size(js) == SumSizes({ p \in js : p.statOk })

BytesPerMB == 1048576

\* f"{total_mb:.1f}": tenths of a megabyte, rounded
TenthsOfMB(bytes) == (bytes * 10 + BytesPerMB \div 2) \div BytesPerMB

\* The number of types the summary lists: the [:10] of line 583.
TopN == 10

\* list(config_types.items())[:10]: the first TopN types in the order rglob
\* met them, which is the order the file system lists the directories in;
\* any TopN of the types can come first, and all of them when there are no
\* more than TopN.
Listings(types) ==
    { l \in SUBSET DOMAIN types : Cardinality(l) = Min(TopN, Cardinality(DOMAIN types)) }

NoSummary ==
    [ printed |-> FALSE, files |-> 0, bytes |-> 0, tenthsMB |-> 0, types |-> << >>,
      listed |-> {} ]

\* _analyze_backup on the paths of the output directory, l being the types
\* that rglob met first.
analyze_backup(paths, l) ==
    IF json_files(paths) = {} THEN NoSummary
    ELSE [ printed |-> TRUE,
           listed |-> l,
           files |-> Cardinality(json_files(paths)),
           bytes |-> total_size(json_files(paths)),
           tenthsMB |-> TenthsOfMB(total_size(json_files(paths))),
           types |-> config_types(json_files(paths)) ]

(***************************************************************************)
(* run_backup and _create_restore_script                                   *)
(***************************************************************************)
\* datetime.now().strftime("%Y%m%d_%H%M%S"): the clock to the second
Timestamp(t) == t \div TicksPerSecond

\* platform.system().lower(): Windows, or any other system.
Systems == { "windows", "other" }

\* A location: the names of the directories from the root down, then the
\* file's. The parent of a location; the root is its own parent.
Up(loc) == IF loc = << >> THEN << >> ELSE SubSeq(loc, 1, Len(loc) - 1)

\* The location a relative path denotes from the directory at: ".." goes to
\* the parent, any other component goes down.
RECURSIVE Resolve(_, _)
Resolve(at, rel) ==
    IF rel = << >> THEN at
    ELSE Resolve(IF Head(rel) = ".." THEN Up(at) ELSE Append(at, Head(rel)), Tail(rel))

\* self.backup_dir = Path("../backups")
backup_dir == << "..", "backups" >>

\* self.backup_dir / f"backup_{timestamp}"
backup_dir_of(ts) == Append(backup_dir, "backup_" \o ToString(ts))

\* _get_monaco_path: where download_monaco places the binary and where the
\* backup looks for it, relative to the working directory.
get_monaco_path(sys) == << IF sys = "windows" THEN "monaco.exe" ELSE "monaco" >>

\* monaco_path in the generated restore.py, relative to the directory the
\* script is run in.
restore_monaco_path(sys) ==
    << "..", "..", IF sys = "windows" THEN "monaco.exe" ELSE "monaco" >>

NoArtifact ==
    [ written |-> FALSE, url |-> None, generated |-> 0, tool |-> [ sys \in Systems |-> << >> ] ]
Artifact(url, t) ==
    [ written |-> TRUE, url |-> url, generated |-> Timestamp(t),
      tool |-> [ sys \in Systems |-> restore_monaco_path(sys) ] ]

NoDir == [ users |-> {}, paths |-> {}, restore |-> NoArtifact, readme |-> NoArtifact ]

\* The directory ../backups/backup_<ts>, empty when it does not exist.
DirOf(bk, ts) == IF ts \in DOMAIN bk THEN bk[ts] ELSE NoDir

\* The write landing in every directory under ../backups.
WithDir_Clobber(bk, ts, d) == [ x \in DOMAIN bk \cup { ts } |-> d ]

\* ../backups with directory backup_<ts> holding d.
WithDir(bk, ts, d) == [ x \in DOMAIN bk \cup { ts } |-> IF x = ts THEN d ELSE bk[x] ]

\* How the child process ends: it exits 0, it exits 0 having removed the output
\* directory, it exits non-zero, or it is killed when the timeout expires.
ChildOutcomes == { "exit0", "exit0_nodir", "exitN", "timeout" }
WriteOutcomes == { "ok", "restore_error", "readme_error" }

\* The analysis and the artifacts reached whatever the child did.
ReachesArtifacts_Always(c) == TRUE

\* Whether run_backup reaches _analyze_backup and _create_restore_script
\* (lines 537-541): the child exited 0 and the output directory exists.
ReachesArtifacts(c) == c = "exit0"

\* _create_restore_script writing restore.py alone.
create_restore_script_SkipReadme(d, url, t, w) ==
    [ d EXCEPT !.restore = IF w = "restore_error" THEN @ ELSE Artifact(url, t) ]

\* _create_restore_script on directory d: w is where writing fails, if it does.
create_restore_script(d, url, t, w) ==
    [ d EXCEPT !.restore = IF w = "restore_error" THEN @ ELSE Artifact(url, t),
               !.readme = IF w = "ok" THEN Artifact(url, t) ELSE @ ]

\* The lines the child process prints on its stdout and stderr, in order.
ChildOutput == [ i \in 1..MaxOutput |-> Alphabet[i] ]

\* result.stdout after subprocess.run(cmd, env=env, timeout=600, check=True):
\* None, since no pipe was asked for; the lines go to the terminal.
result_stdout(lines) == None

\* Whether subprocess.run(check=True) returned: the child exited 0.
ChildSucceeded(c) == c \in { "exit0", "exit0_nodir" }

\* The stages that follow the start of the child, with their results: the
\* analysis reports no failure; the generation fails when a write does.
StagesOfBackup(c, w) ==
    << [ name |-> "run", ok |-> ChildSucceeded(c) ] >> \o
    ( IF ReachesArtifacts(c)
      THEN << [ name |-> "analyze", ok |-> TRUE ], [ name |-> "generate", ok |-> w = "ok" ] >>
      ELSE << >> )

\* run_backup returning the output directory for a child that timed out, too.
RunBackupReturn_PathOnTimeout(c, w, ts) ==
    IF c \in { "exit0", "timeout" } /\ w = "ok" THEN { ts } ELSE {}

\* The value run_backup returns: { the output directory's name }, or {} for None.
RunBackupReturn(c, w, ts) ==
    IF ReachesArtifacts(c) /\ w = "ok" THEN { ts } ELSE {}

(***************************************************************************)
(* The invocation: main() and run_complete_backup, one action per stage.   *)
(***************************************************************************)
NoChild == [ outcome |-> "none", dir |-> 0, emitted |-> << >>, write |-> "none" ]
NoExit == [ exited |-> FALSE, status |-> 0 ]
Exit(n) == [ exited |-> TRUE, status |-> n ]

\* A failed backup followed by another attempt instead of the exit.
Finish_RetryBackup(how, status) ==
    IF how = "backup_failed"
    THEN /\ pc' = "probed"
         /\ UNCHANGED << ended, exitStatus >>
    ELSE /\ pc' = "exited"
         /\ ended' = how
         /\ exitStatus' = Exit(status)

\* sys.exit(0 if success else 1), and sys.exit(1) in __init__
Finish(how, status) ==
    /\ pc' = "exited"
    /\ ended' = how
    /\ exitStatus' = Exit(status)

\* A stage of run_complete_backup that has run, and whether it succeeded.
Stage(name, ok) == [ name |-> name, ok |-> ok ]

Fresh ==
    /\ pc = "start"
    /\ base_url = None
    /\ token = None
    /\ masked_token = None
    /\ netlog = << >>
    /\ probe = NoProbe
    /\ child = NoChild
    /\ backup_path = {}
    /\ summary = NoSummary
    /\ ended = "running"
    /\ exitStatus = NoExit
    /\ spawned = << >>
    /\ activities = { "main" }
    /\ output_log = None
    /\ interrupted = FALSE
    /\ stages = << >>

InitWith(envs, efs, cfgs, trees, says, dirs) ==
    /\ cwd \in dirs
    /\ environ \in envs
    /\ envFile \in efs
    /\ configFile \in cfgs
    /\ remote \in trees
    /\ dryrun \in says
    /\ installed \in BOOLEAN
    /\ hasRequests = installed
    /\ monaco \in { "absent", "complete" }
    /\ backups = << >>
    /\ envYaml = None
    /\ now = 0
    /\ run = 1
    /\ Fresh

\* DynatraceBackupUniversal(): __init__
Construct ==
    /\ pc = "start"
    /\ base_url' = get_base_url(environ)
    /\ IF ~Truthy(get_base_url(environ))
       THEN /\ Finish("no_url", 1)
            /\ stages' = Append(stages, Stage("resolve", FALSE))
            /\ UNCHANGED token
       ELSE /\ token' = get_token(environ, envFile, configFile)
            /\ pc' = "constructed"
            /\ UNCHANGED << ended, exitStatus, stages >>
    /\ UNCHANGED << cwd, dryrun, environ, envFile, configFile, hasRequests, monaco, backups, now,
                    run, masked_token, netlog, probe, child, backup_path, summary,
                    envYaml, installed, remote, spawned, activities, output_log,
                    interrupted >>

\* validate_environment, with check_python_installation (which succeeds: the
\* script's f-strings need the Python it asks for) and install_dependencies
ValidateEnvironment ==
    /\ pc = "constructed"
    /\ \E pip \in { "ok", "failed" } :
          IF hasRequests
          THEN UNCHANGED << netlog, installed >>
          ELSE /\ netlog' = Append(netlog, "pip")
               /\ installed' = (pip = "ok")
    /\ stages' = Append(stages, Stage("resolve", Truthy(token)))
    /\ IF ~Truthy(token)
       THEN /\ Finish("no_token", 1)
            /\ UNCHANGED masked_token
       ELSE /\ masked_token' = Mask(token)
            /\ pc' = "validated"
            /\ UNCHANGED << ended, exitStatus >>
    /\ UNCHANGED << cwd, dryrun, environ, envFile, configFile, hasRequests, monaco, backups, now,
                    run, base_url, token, probe, child, backup_path, summary,
                    envYaml, remote, spawned, activities, output_log, interrupted >>

\* download_monaco
DownloadMonaco ==
    /\ pc = "validated"
    /\ IF MonacoExists(monaco)
       THEN /\ pc' = "acquired"
            /\ stages' = Append(stages, Stage("acquire", TRUE))
            /\ UNCHANGED << monaco, netlog, ended, exitStatus >>
       ELSE \E r1, r2, r3 \in MethodOutcomes :
               /\ netlog' = netlog \o MethodsTried(hasRequests, r1, r2, r3)
               /\ monaco' = DownloadedFile(hasRequests, r1, r2, r3)
               /\ stages' = Append(stages,
                                   Stage("acquire", DownloadSuccess(hasRequests, r1, r2, r3)))
               /\ IF DownloadSuccess(hasRequests, r1, r2, r3)
                  THEN /\ pc' = "acquired"
                       /\ UNCHANGED << ended, exitStatus >>
                  ELSE Finish("download_failed", 1)
    /\ UNCHANGED << cwd, dryrun, environ, envFile, configFile, hasRequests, backups, now, run,
                    base_url, token, masked_token, probe, child, backup_path,
                    summary, envYaml, installed, remote, spawned, activities,
                    output_log, interrupted >>

\* Whether subprocess.run started the tool in outcome o.
Spawned(o) == o.kind \in { "timeout", "completed" }

\* test_connectivity with outcome o, and what run_complete_backup and main do
\* with its result
ProbeStep(o) ==
    /\ pc = "acquired"
    /\    /\ monaco = "partial" => ~Spawned(o)
          /\ probe' = [ outcome |-> o, result |-> ProbeReturn(o),
                        temp |-> TempAfter(o), manifest |-> ManifestUrl(o, base_url) ]
          /\ netlog' = IF Spawned(o) THEN Append(netlog, "probe") ELSE netlog
          /\ stages' = Append(stages, Stage("probe", ProbeReturn(o) = "True"))
          /\ spawned' = IF Spawned(o)
                        THEN Append(spawned,
                                    Process(probe_cmd, child_env(environ, "DT_TOKEN", token)))
                        ELSE spawned
          /\ CASE ProbeReturn(o) = "True" ->
                    /\ pc' = "probed"
                    /\ UNCHANGED << ended, exitStatus >>
               [] ProbeReturn(o) = "False" -> Finish("probe_failed", 1)
               [] OTHER -> Finish("probe_raised", 1)
    /\ UNCHANGED << cwd, dryrun, environ, envFile, configFile, hasRequests, monaco, backups, now,
                    run, base_url, token, masked_token, child, backup_path,
                    summary, envYaml, installed, remote, activities, output_log >>

\* test_connectivity
TestConnectivity ==
    /\ \E o \in ProbeOutcomes(dryrun) : ProbeStep(o)
    /\ UNCHANGED interrupted

\* run_backup up to the start of the child process (lines 500-533), with
\* create_monaco_config; when the tool cannot be started, the rest of
\* run_backup, run_complete_backup and main as well
StartBackup ==
    /\ pc = "probed"
    /\ \E dt \in 0..MaxElapsed, started \in BOOLEAN :
          LET t0 == now + dt                \* datetime.now() at line 505
              ts == Timestamp(t0)
              d0 == DirOf(backups, ts)      \* mkdir(parents=True, exist_ok=True)
          IN  /\ monaco = "partial" => ~started
              /\ now' = t0
              /\ envYaml' = base_url
              /\ backups' = WithDir(backups, ts, [ d0 EXCEPT !.users = @ \cup { run } ])
              /\ IF started
                 THEN /\ child' = [ NoChild EXCEPT !.outcome = "running", !.dir = ts ]
                      /\ netlog' = Append(netlog, "backup")
                      /\ spawned' =
                            Append(spawned,
                                   Process(backup_cmd(base_url, ts),
                                           child_env(environ, "DYNATRACE_API_TOKEN", token)))
                      /\ activities' = activities \cup { "child" }
                      /\ pc' = "running"
                      /\ UNCHANGED << ended, exitStatus, stages >>
                 ELSE /\ child' = [ NoChild EXCEPT !.outcome = "spawn_error", !.dir = ts ]
                      /\ Finish("backup_failed", 1)
                      /\ stages' = Append(stages, Stage("run", FALSE))
                      /\ UNCHANGED << netlog, spawned, activities >>
    /\ probe' = NoProbe
    /\ UNCHANGED << cwd, dryrun, environ, envFile, configFile, hasRequests, monaco, run, base_url,
                    token, masked_token, backup_path, summary, installed, remote,
                    output_log, interrupted >>

\* The child process ends or is killed at the timeout; the rest of run_backup
\* (lines 535-554), with _analyze_backup and _create_restore_script, and of
\* run_complete_backup and main
FinishBackup ==
    /\ pc = "running"
    /\ \E dt \in 0..MaxElapsed, c \in ChildOutcomes, w \in WriteOutcomes,
          l \in Listings(config_types(json_files(backups[child.dir].paths \cup remote))) :
          LET t1 == now + dt                \* datetime.now() at lines 605-693
              ts == child.dir
              d1 == [ backups[ts] EXCEPT !.paths = @ \cup remote ]
              d2 == IF ReachesArtifacts(c)
                    THEN create_restore_script(d1, base_url, t1, w)
                    ELSE d1
          IN  /\ ~ReachesArtifacts(c) => w = "ok"
              /\ now' = t1
              /\ backups' = IF c = "exit0_nodir"
                            THEN [ x \in DOMAIN backups \ { ts } |-> backups[x] ]
                            ELSE WithDir(backups, ts, d2)
              /\ child' = [ child EXCEPT !.outcome = c, !.emitted = ChildOutput,
                                          !.write = IF ReachesArtifacts(c) THEN w ELSE "none" ]
              /\ output_log' = result_stdout(ChildOutput)
              /\ activities' = activities \ { "child" }
              /\ summary' = IF ReachesArtifacts(c) THEN analyze_backup(d1.paths, l) ELSE NoSummary
              /\ backup_path' = RunBackupReturn(c, w, ts)
              /\ stages' = stages \o StagesOfBackup(c, w)
              /\ IF RunBackupReturn(c, w, ts) # {}
                 THEN Finish("success", 0)
                 ELSE Finish("backup_failed", 1)
    /\ UNCHANGED << cwd, dryrun, environ, envFile, configFile, hasRequests, monaco, run, base_url,
                    token, masked_token, netlog, probe, envYaml, installed, remote,
                    spawned, interrupted >>

\* The program is started again, in the same environment and working directory.
Restart ==
    /\ pc = "exited"
    /\ run < MaxRuns
    /\ run' = run + 1
    /\ hasRequests' = installed
    /\ pc' = "start"
    /\ base_url' = None
    /\ token' = None
    /\ masked_token' = None
    /\ netlog' = << >>
    /\ probe' = NoProbe
    /\ child' = NoChild
    /\ backup_path' = {}
    /\ summary' = NoSummary
    /\ ended' = "running"
    /\ exitStatus' = NoExit
    /\ spawned' = << >>
    /\ activities' = { "main" }
    /\ output_log' = None
    /\ interrupted' = FALSE
    /\ stages' = << >>
    /\ UNCHANGED << cwd, dryrun, environ, envFile, configFile, monaco, backups, now, envYaml,
                    installed, remote >>

\* A KeyboardInterrupt delivered where it reaches main's handler (lines
\* 764-766): between the stages or inside one.  Inside download_monaco it can
\* leave an incomplete file; inside test_connectivity the finally block still
\* removes the temporary directory; inside subprocess.run the child is killed
\* before the exception goes on, and the output directory stays.
Interrupt ==
    /\ pc \in { "start", "constructed", "validated", "acquired", "probed", "running" }
    /\ interrupted' = TRUE
    /\ Finish("interrupted", 1)
    /\ IF pc = "validated" /\ ~MonacoExists(monaco)
       THEN monaco' \in { "absent", "partial" }
       ELSE UNCHANGED monaco
    /\ IF pc = "acquired"
       THEN \E r \in RmtreeOutcomes :
               LET o == [ kind |-> "interrupted", rc |-> 0, out |-> {}, rmtree |-> r ]
               IN  probe' = [ outcome |-> o, result |-> "raised",
                              temp |-> TempAfter(o), manifest |-> base_url ]
       ELSE UNCHANGED probe
    /\ IF pc = "running"
       THEN /\ child' = [ child EXCEPT !.outcome = "killed", !.emitted = ChildOutput ]
            /\ backups' = [ backups EXCEPT ![child.dir].paths = @ \cup remote ]
            /\ activities' = activities \ { "child" }
       ELSE UNCHANGED << child, backups, activities >>
    /\ UNCHANGED << cwd, dryrun, environ, envFile, configFile, hasRequests, now, run, base_url,
                    token, masked_token, netlog, backup_path, summary, envYaml,
                    installed, remote, spawned, output_log, stages >>

\* A KeyboardInterrupt delivered while test_connectivity is in
\* shutil.rmtree(temp_dir): the bare except at line 470 catches it like any
\* failure of rmtree, and the call goes on to return its value.
InterruptCleanup ==
    /\ \E o \in ProbeOutcomes(dryrun) :
          /\ o.kind # "mkdtemp_error"
          /\ o.rmtree = "error"
          /\ ProbeStep(o)
    /\ interrupted' = TRUE

(***************************************************************************)
(* Specifications.                                                         *)
(***************************************************************************)
\* The working directory /home/tool.
SampleDir == << "home", "tool" >>

GoodEnviron ==
    [ n \in EnvNames |->
        CASE n = "DT_CLUSTER_URL" -> UrlEnv
          [] n = "DT_API_TOKEN" -> TokPrimary
          [] OTHER -> None ]

NoEnvFile == [ exists |-> FALSE, lines |-> << >> ]
NoConfigFile == [ kind |-> "absent", token |-> None ]

\* One invocation, in every environment.
Init == InitWith(Environs, EnvFiles, ConfigFiles, { SampleTree }, { SampleMarkers },
             { SampleDir })

Next ==
    \/ Construct
    \/ ValidateEnvironment
    \/ DownloadMonaco
    \/ TestConnectivity
    \/ StartBackup
    \/ FinishBackup

Spec == Init /\ [][Next]_vars

\* Invocations one after another, with both credentials in the environment.
InitRuns ==
    InitWith({ GoodEnviron }, { NoEnvFile }, { NoConfigFile }, { SampleTree }, { SampleMarkers },
             { SampleDir })

NextRuns ==
    \/ Next
    \/ Restart

SpecRuns == InitRuns /\ [][NextRuns]_vars

\* One invocation with both credentials in the environment, and a user who
\* may interrupt it.
NextInterrupt ==
    \/ Next
    \/ Interrupt
    \/ InterruptCleanup

SpecInterrupt == InitRuns /\ [][NextInterrupt]_vars

\* One invocation, for every tree the tool can leave.
InitAnalyze ==
    InitWith({ GoodEnviron }, { NoEnvFile }, { NoConfigFile }, Trees, { SampleMarkers },
             { SampleDir })

SpecAnalyze == InitAnalyze /\ [][Next]_vars

\* One invocation, for every output of the tool's dry-run.
InitProbe ==
    InitWith({ GoodEnviron }, { NoEnvFile }, { NoConfigFile }, { SampleTree }, { Markers },
             { SampleDir })

SpecProbe == InitProbe /\ [][Next]_vars

\* Working directories: the root, /home and /home/tool.
WorkDirs == { << >>, << "home" >>, SampleDir }

\* One invocation, in each of the working directories.
InitRestore ==
    InitWith({ GoodEnviron }, { NoEnvFile }, { NoConfigFile }, { SampleTree }, { SampleMarkers },
             WorkDirs)

SpecRestore == InitRestore /\ [][Next]_vars

\* The configuration types of a large environment: one more than the
\* summary lists.
TypeNames ==
    << "alerting-profile", "anomaly-detection", "application-web", "auto-tag",
       "calculated-metrics", "dashboard", "management-zone", "notification",
       "request-attributes", "slo", "synthetic-monitor" >>

\* The trees with one file of every type and a second file of type k.
WideTree(k) ==
    { Path("c1", TypeNames[i], ".json", 1024, "file", TRUE) : i \in DOMAIN TypeNames }
        \cup { Path("c2", TypeNames[k], ".json", 1024, "file", TRUE) }

WideTrees == { WideTree(k) : k \in DOMAIN TypeNames }

\* One invocation, for the trees with more types than the summary lists.
InitSummary ==
    InitWith({ GoodEnviron }, { NoEnvFile }, { NoConfigFile }, WideTrees, { SampleMarkers },
             { SampleDir })

SpecSummary == InitSummary /\ [][Next]_vars

(***************************************************************************)
(* Claims.                                                                 *)
(***************************************************************************)
Exited == pc = "exited"

\* No source holds a token: both variables unset, neither settings file exists.
NoTokenSource ==
    /\ environ["DT_API_TOKEN"] = None
    /\ environ["DYNATRACE_API_TOKEN"] = None
    /\ ~envFile.exists
    /\ configFile.kind = "absent"

\* C1: with no token variable set and no settings file, the invocation
\* attempts no network request on its way to its exit, and exits with status 1.
C1_NoTokenNoNetwork ==
    NoTokenSource =>
        /\ netlog = << >>
        /\ Exited => exitStatus = Exit(1)

DownloadMethods == { "requests", "urllib", "curl" }
IsDownloadMethod(m) == m \in DownloadMethods

\* C2: download failure is returned only after every method of the chain
\* requests, urllib, curl that is available has been tried, in that order.
C2_ChainExhausted ==
    ended = "download_failed" =>
        SelectSeq(netlog, IsDownloadMethod) =
            IF hasRequests THEN << "requests", "urllib", "curl" >>
            ELSE << "urllib", "curl" >>

ChildCompleted == child.outcome \in { "exit0", "exitN", "timeout" }

\* C3: when the backup's child process has completed (exit 0, exit non-zero or
\* timeout) and the invocation has ended, restore.py and README.md are in the
\* run's output directory.
C3_ArtifactsOnEveryCompletedRun ==
    (Exited /\ ChildCompleted) =>
        /\ child.dir \in DOMAIN backups
        /\ backups[child.dir].restore.written
        /\ backups[child.dir].readme.written

\* C4: no output directory is used by two runs.
C4_DirectoryNeverReused ==
    \A ts \in DOMAIN backups : Cardinality(backups[ts].users) <= 1

\* C5: for a token shorter than prefix plus suffix, the masked form that is
\* printed does not contain the token.
C5_ShortTokenNotRevealed ==
    (masked_token # None /\ Len(token) < 2 * MaskLen) =>
        ~Contains(masked_token, token)

\* What the claim as written asks of an outcome of the dry-run.
C6_Expected(o) ==
    IF o.kind = "timeout" THEN "False"
    ELSE IF o.out \cap { "401", "unauthorized" } # {} THEN "False"
    ELSE IF o.out \cap { "403", "forbidden" } # {} THEN "False"
    ELSE "True"

\* C6 as written: a timeout, and output with 401/unauthorized or
\* 403/forbidden, return failure; every other outcome returns success.
\* (Stated of the calls that return.)
C6_AsWritten ==
    probe.result \in { "True", "False" } => probe.result = C6_Expected(probe.outcome)

\* C6 as amended: a timeout returns failure; a dry-run that ran to its end
\* returns success when it exited 0 or printed a success marker, whatever else
\* it printed, and otherwise failure exactly when it printed an
\* authentication, permission or network marker; an exception inside the try
\* block returns success, and one of mkdtemp, before it, is raised.
C6_Classification ==
    probe.result # "none" =>
        LET o == probe.outcome
            good == \/ o.rc = 0
                    \/ "validation successful" \in o.out
                    \/ "would deploy" \in o.out
            bad == o.out \cap { "401", "unauthorized", "403", "forbidden",
                                "connection", "network", "timeout" } # {}
        IN  /\ o.kind = "timeout" => probe.result = "False"
            /\ o.kind \in { "setup_error", "spawn_error" } => probe.result = "True"
            /\ o.kind = "mkdtemp_error" => probe.result = "raised"
            /\ o.kind = "completed" =>
                  probe.result = IF good \/ ~bad THEN "True" ELSE "False"

\* The dry-run exited 0 with 401 in its output, and the probe returned True.
C6_Witness ==
    /\ probe.outcome.kind = "completed"
    /\ probe.outcome.rc = 0
    /\ "401" \in probe.outcome.out
    /\ probe.result = "True"
    /\ pc = "probed"

Analyzed == Exited /\ child.outcome = "exit0"

\* The regular files the output directory held when it was analyzed.
RegularFiles == { p \in backups[child.dir].paths : p.kind = "file" }
CountByExt(ps) ==
    [ e \in { p.ext : p \in ps } |-> Cardinality({ p \in ps : p.ext = e }) ]

\* C7: the analyzer reports the number of regular files under the output
\* directory, the sum of their sizes, and their counts by extension.
\* (Stated of the trees of regular files whose sizes can be read.)
C7_EveryFileCounted ==
    (Analyzed /\ \A p \in backups[child.dir].paths : p.kind = "file" /\ p.statOk) =>
        /\ summary.files = Cardinality(RegularFiles)
        /\ summary.bytes = SumSizes(RegularFiles)
        /\ summary.types = CountByExt(RegularFiles)

\* C8: a run whose child was killed at the timeout is not reported as a
\* success, and run_backup returns for it a value other than the one it
\* returns for a child that exited non-zero.
C8_TimeoutDistinct ==
    (Exited /\ child.outcome = "timeout") =>
        /\ ended # "success"
        /\ backup_path # RunBackupReturn("exitN", "ok", child.dir)

Resolved == pc # "start" /\ ended # "no_url"

\* C9: a non-empty value of an environment variable is the resolved value
\* whatever the settings files hold, and DT_API_TOKEN wins over
\* DYNATRACE_API_TOKEN.
C9_EnvironmentWins ==
    Resolved =>
        /\ Truthy(environ["DT_CLUSTER_URL"]) => base_url = environ["DT_CLUSTER_URL"]
        /\ Truthy(environ["DT_API_TOKEN"]) => token = environ["DT_API_TOKEN"]
        /\ (~Truthy(environ["DT_API_TOKEN"]) /\ Truthy(environ["DYNATRACE_API_TOKEN"])) =>
              token = environ["DYNATRACE_API_TOKEN"]

FileHas(k) ==
    /\ envFile.exists
    /\ \E i \in 1..Len(envFile.lines) :
          envFile.lines[i].key = k /\ Truthy(ParseValue(envFile.lines[i].raw))

\* Both token variables are set, .env holds another token and another URL,
\* dynatrace.config holds a third token, and the primary variable's was taken.
C9_Witness ==
    /\ Resolved
    /\ environ["DT_API_TOKEN"] = TokPrimary
    /\ environ["DYNATRACE_API_TOKEN"] = TokAlias
    /\ FileHas("DT_API_TOKEN")
    /\ FileHas("DT_CLUSTER_URL")
    /\ configFile.token = TokConfig
    /\ token = TokPrimary
    /\ base_url = UrlEnv

\* C10: a cluster URL that only the settings file holds is resolved: the
\* invocation does not end for want of a URL.
C10_UrlFromSettingsFile ==
    (pc # "start" /\ FileHas("DT_CLUSTER_URL")) => ended # "no_url"

\* C11: a call of download_monaco that finds a file at the tool's path
\* succeeds at once: it attempts no network request, starts no process and
\* writes or changes no file; so does a second call after one that succeeded.
C11_AcquisitionIdempotent ==
    [][(pc = "validated" /\ monaco # "absent") =>
          /\ pc' = "acquired"
          /\ netlog' = netlog
          /\ spawned' = spawned
          /\ monaco' = monaco
          /\ backups' = backups
          /\ envYaml' = envYaml
          /\ installed' = installed]_vars

\* The second invocation has passed download_monaco with the tool in place and
\* without a download.
C11_Witness ==
    /\ run = 2
    /\ pc = "acquired"
    /\ monaco = "complete"
    /\ SelectSeq(netlog, IsDownloadMethod) = << >>

\* Every stage up to the restore artifacts succeeded: both credentials were
\* resolved, the tool was started for the download and exited 0, and
\* restore.py and README.md were written into the run's output directory.
AllStagesSucceeded ==
    /\ Truthy(base_url)
    /\ Truthy(token)
    /\ \E i \in 1..Len(netlog) : netlog[i] = "backup"
    /\ child.outcome = "exit0"
    /\ child.dir \in DOMAIN backups
    /\ backups[child.dir].restore = Artifact(base_url, now)
    /\ backups[child.dir].readme = Artifact(base_url, now)

\* C12: the invocation exits with status 0 exactly when every stage up to the
\* restore artifacts succeeded, and with status 1 otherwise: without a
\* cluster URL, without a token, when the tool could not be acquired, when
\* the probe failed, when the child exited non-zero or timed out.
C12_ExitStatus ==
    Exited =>
        /\ exitStatus.status \in { 0, 1 }
        /\ exitStatus.status = 0 <=> AllStagesSucceeded
        /\ ~Truthy(environ["DT_CLUSTER_URL"]) => exitStatus.status = 1
        /\ ~Truthy(get_token(environ, envFile, configFile)) => exitStatus.status = 1
        /\ ended = "download_failed" => exitStatus.status = 1
        /\ probe.result \in { "False", "raised" } => exitStatus.status = 1
        /\ child.outcome \in { "exitN", "timeout" } => exitStatus.status = 1

\* An invocation has exited 0 with its artifacts written, having downloaded the
\* tool first.
C12_Witness ==
    /\ Exited
    /\ exitStatus = Exit(0)
    /\ AllStagesSucceeded
    /\ \E i \in 1..Len(netlog) : IsDownloadMethod(netlog[i])

\* Whether an argument vector holds the text t in one of its values.
ArgvHolds(argv, t) ==
    \E i \in 1..Len(argv) : "val" \in DOMAIN argv[i] /\ Contains(argv[i].val, t)

\* The values the program has written into files: the url of the probe's
\* manifest, of environments.yaml, of every restore.py and README.md.
WrittenValues ==
    { probe.manifest, envYaml } \cup
    { backups[ts].restore.url : ts \in DOMAIN backups } \cup
    { backups[ts].readme.url : ts \in DOMAIN backups }

\* The name of the environment variable that carries the token to a process.
TokenVariable(p) == IF p.argv = probe_cmd THEN "DT_TOKEN" ELSE "DYNATRACE_API_TOKEN"

\* C13: the token reaches the tool's processes through their environment
\* only: no argument of a process started holds it, and no file written does.
C13_TokenOnlyInEnvironment ==
    Truthy(token) =>
        /\ \A i \in 1..Len(spawned) :
              /\ ~ArgvHolds(spawned[i].argv, token)
              /\ spawned[i].env[TokenVariable(spawned[i])] = token
        /\ \A v \in WrittenValues : ~Contains(v, token)

\* Both the probe and the download were started, and every file was written.
C13_Witness ==
    /\ Len(spawned) = 2
    /\ spawned[2].argv = backup_cmd(base_url, child.dir)
    /\ ArgvHolds(spawned[2].argv, base_url)
    /\ envYaml = base_url
    /\ Exited /\ AllStagesSucceeded
    /\ token = TokEnvFile

ProbeCalled == probe.result # "none"

\* C14: test_connectivity returns a Boolean whichever of its steps fails; it
\* raises no exception.
C14_ProbeNeverRaises ==
    ProbeCalled => probe.result \in { "True", "False" }

C16_ArtifactRoundTrip ==
    [][/\ \A ts \in DOMAIN backups' :
             backups'[ts].readme # DirOf(backups, ts).readme =>
                 /\ pc = "running" /\ ts = child.dir
                 /\ backups'[ts].readme = Artifact(base_url, now')
                 /\ backups'[ts].restore = Artifact(base_url, now')
       /\ \A ts \in DOMAIN backups :
             (pc # "running" \/ ts # child.dir) =>
                 /\ ts \in DOMAIN backups'
                 /\ backups'[ts].restore = backups[ts].restore
                 /\ backups'[ts].readme = backups[ts].readme]_vars

\* Two output directories hold a restore.py and a README.md each, written by
\* two invocations at different times.
C16_Witness ==
    \E a, b \in DOMAIN backups :
        /\ a # b
        /\ backups[a].readme.written /\ backups[b].readme.written
        /\ backups[a].restore.written /\ backups[b].restore.written
        /\ backups[a].readme.url = UrlEnv /\ backups[b].readme.url = UrlEnv
        /\ backups[a].readme.generated # backups[b].readme.generated

\* C17: while the backup's child process runs, a progress poller runs beside
\* it, and the poller is gone when the invocation has ended.
C17_PollerBesideChild ==
    /\ pc = "running" => "poller" \in activities
    /\ Exited => "poller" \notin activities

\* C18: when the child process has ended, the supervisor holds the lines it
\* printed, all of them and in the order it printed them.
C18_OutputCapturedInOrder ==
    (Exited /\ child.outcome \in { "exit0", "exit0_nodir", "exitN", "timeout" }) =>
        output_log = child.emitted

IsBackupSpawn(m) == m = "backup"

BackupFailed == child.outcome \in { "spawn_error", "exit0_nodir", "exitN", "timeout" }

\* C19: an invocation starts the download's child process at most once; when
\* the backup has failed (the tool not started, a non-zero exit, a timeout, no
\* output directory, an artifact not written) the invocation ends in failure,
\* with run_backup having returned None, and the child is not started again.
C19_ChildSpawnedAtMostOnce ==
    /\ Len(SelectSeq(netlog, IsBackupSpawn)) <= 1
    /\ Len(SelectSeq(spawned, LAMBDA p : p.argv # probe_cmd)) <= 1
    /\ (BackupFailed \/ ended = "backup_failed") =>
          /\ Exited
          /\ exitStatus = Exit(1)
          /\ backup_path = {}
          /\ "child" \notin activities

\* The child was started once, timed out, and the invocation ended in failure.
C19_Witness ==
    /\ child.outcome = "timeout"
    /\ Len(SelectSeq(netlog, IsBackupSpawn)) = 1
    /\ Exited
    /\ exitStatus = Exit(1)

\* C20: once a user interrupt has been delivered, the invocation has ended
\* with status 1 without entering a later stage, no child process is left
\* running, and the output directory of a backup that was under way is still
\* on disk.
C20_InterruptEndsInvocation ==
    interrupted =>
        /\ Exited
        /\ exitStatus = Exit(1)
        /\ "child" \notin activities
        /\ child.outcome # "none" => child.dir \in DOMAIN backups

\* The stages of an invocation, in the order run_complete_backup calls them.
StageOrder == << "resolve", "acquire", "probe", "run", "analyze", "generate" >>

\* C21: the stages run in the order resolve, acquire, probe, run, analyze,
\* generate, each at most once, and each after the previous one succeeded;
\* the backup child is spawned only after the acquisition and the probe
\* succeeded, and the analysis and the generation start only after the child
\* has terminated.
C21_StagesInOrder ==
    /\ Len(stages) <= Len(StageOrder)
    /\ \A i \in DOMAIN stages : stages[i].name = StageOrder[i]
    /\ \A i \in DOMAIN stages : i < Len(stages) => stages[i].ok
    /\ (\E i \in DOMAIN netlog : IsBackupSpawn(netlog[i])) =>
          /\ Len(stages) >= 3
          /\ stages[2].ok
          /\ stages[3].ok
    /\ (\E i \in DOMAIN stages : stages[i].name \in { "analyze", "generate" }) =>
          /\ child.outcome = "exit0"
          /\ "child" \notin activities

\* All six stages ran and the last one succeeded.
C21_Witness ==
    /\ Len(stages) = Len(StageOrder)
    /\ stages[Len(stages)].ok
    /\ child.outcome = "exit0"

\* The .json paths of the analyzed output directory, and those whose size
\* could not be read.
AnalyzedJson == { p \in backups[child.dir].paths : p.ext = ".json" }
Unreadable == { p \in AnalyzedJson : ~p.statOk }

\* C22: when the size of a file cannot be read during the analysis, the
\* analysis still counts every file, sums the sizes of all the others and
\* prints its summary; the artifact generation runs afterwards and the
\* invocation's outcome is the one the generation alone decides.
C22_SoftFailureSkipsOnlyThatFile ==
    (Analyzed /\ Unreadable # {}) =>
        /\ summary.printed
        /\ summary.files = Cardinality(AnalyzedJson)
        /\ summary.bytes = SumSizes(AnalyzedJson \ Unreadable)
        /\ Len(stages) = Len(StageOrder)
        /\ stages[Len(stages)].name = "generate"
        /\ (exitStatus = Exit(0)) <=> stages[Len(stages)].ok
        /\ (exitStatus = Exit(1)) <=> ~stages[Len(stages)].ok

\* A directory with a readable and an unreadable file was analyzed, and the
\* invocation succeeded.
C22_Witness ==
    /\ Analyzed
    /\ Unreadable # {}
    /\ AnalyzedJson \ Unreadable # {}
    /\ summary.bytes > 0
    /\ backups[child.dir].readme.written
    /\ exitStatus = Exit(0)

\* C23: when there are more than TopN types, every type the summary lists
\* has at least as many files as every type it leaves out.
C23_TopByFrequency ==
    (summary.printed /\ Cardinality(DOMAIN summary.types) > TopN) =>
        \A a \in summary.listed, b \in DOMAIN summary.types \ summary.listed :
            summary.types[a] >= summary.types[b]

\* Some source holds a non-empty token: a variable, a line of .env, or
\* dynatrace.config.
SomeSourceHasToken ==
    \/ Truthy(environ["DT_API_TOKEN"])
    \/ Truthy(environ["DYNATRACE_API_TOKEN"])
    \/ \E k \in TokenKeys : FileHas(k)
    \/ configFile.kind = "json" /\ Truthy(configFile.token)

\* C24: whenever one of the sources holds a non-empty token, the resolved
\* token is non-empty, whatever the other sources hold, and the invocation
\* does not end for want of a token.
C24_TokenFoundWhenAnySourceHasOne ==
    (Resolved /\ SomeSourceHasToken) =>
        /\ Truthy(token)
        /\ ended # "no_token"

\* C25: a file is at the tool's path only if it was there beforehand or a
\* download method completed, so the file is never an incomplete one, and an
\* invocation that passes download_monaco without a download has the complete
\* binary.
C25_NoPartialBinaryLeft ==
    /\ monaco \in { "absent", "complete" }
    /\ (pc = "acquired" /\ SelectSeq(netlog, IsDownloadMethod) = << >>) => monaco = "complete"

\* The location of the output directory backup_<ts>, where restore.py is run.
OutputDir(ts) == Resolve(cwd, backup_dir_of(ts))

\* C26: the path restore.py holds for the tool, resolved from the output
\* directory, is the location where download_monaco placed the binary, the
\* working directory of the backup, under both namings.
C26_RestoreFindsAcquiredTool ==
    \A ts \in DOMAIN backups :
        backups[ts].restore.written =>
            \A sys \in Systems :
                Resolve(OutputDir(ts), backups[ts].restore.tool[sys])
                    = Resolve(cwd, get_monaco_path(sys))

\* C27: an invocation that ends with status 0 started the backup child
\* once, the child exited 0, and restore.py and README.md were both written
\* in full into that run's output directory; an invocation in which writing
\* either artifact failed ends with status 1.
C27_SuccessMeansArtifacts ==
    /\ (Exited /\ exitStatus = Exit(0)) =>
          /\ Len(SelectSeq(netlog, IsBackupSpawn)) = 1
          /\ Len(SelectSeq(spawned, LAMBDA p : p.argv # probe_cmd)) = 1
          /\ child.outcome = "exit0"
          /\ child.write = "ok"
          /\ backup_path = { child.dir }
          /\ child.dir \in DOMAIN backups
          /\ backups[child.dir].restore.written
          /\ backups[child.dir].readme.written
    /\ (Exited /\ child.write \in { "restore_error", "readme_error" }) =>
          exitStatus = Exit(1)

\* The child exited 0, README.md could not be written, and the invocation
\* ended with status 1.
C27_Witness ==
    /\ Exited
    /\ child.outcome = "exit0"
    /\ child.write = "readme_error"
    /\ backups[child.dir].restore.written
    /\ exitStatus = Exit(1)

====
